---------------------------- MODULE Spec2Model ----------------------------
(***************************************************************************)
(* A model of polyReorder (src/src/polyReorder.cpp): the re-indexing of a  *)
(* polygon mesh through a point-order mapping, and the transfer of the     *)
(* target mesh's normals, normal locks, edge smoothing and UV sets onto    *)
(* the rebuilt output mesh.                                                *)
(*                                                                         *)
(* Arrays are sequences (1-based in TLA+); the ids they hold (vertex,      *)
(* face) are the program's 0-based ids, so the program's a[i] is At(a, i). *)
(***************************************************************************)
EXTENDS Integers, Sequences, FiniteSets, TLC

\* ------------------------------------------------------------------ bounds

\* The largest vertex count of a mesh that Init draws.
MaxVerts == 4

\* The largest number of UV sets of a target mesh that Init draws.
MaxUVSets == 2

\* ----------------------------------------------------------------- helpers

At(a, i) == a[i + 1]

Min(a, b) == IF a < b THEN a ELSE b

RECURSIVE SumSeq(_)
SumSeq(s) == IF s = <<>> THEN 0 ELSE Head(s) + SumSeq(Tail(s))

IsBijection(po, n) ==
    /\ Len(po) = n
    /\ \A i \in 1..n : po[i] \in 0..(n - 1)
    /\ \A i, j \in 1..n : i # j => po[i] # po[j]

\* ------------------------------------------------------- polyReorder.cpp

\* getPoints, lines 36-39: outPoints.set(inPoints[i], pointOrder[i]) for
\* i = 0 .. numVertices-1. r.pts is outPoints, r.writes counts the writes
\* each slot received, r.oob tells that a set() named a slot outside the
\* array (no slot of outPoints receives that write).
RECURSIVE getPointsLoop(_, _, _, _)
getPointsLoop(i, inPoints, po, r) ==
    IF i >= Len(inPoints) THEN r
    ELSE LET slot == At(po, i)
         IN  IF slot \in 0..(Len(inPoints) - 1)
             THEN getPointsLoop(i + 1, inPoints, po,
                    [r EXCEPT !.pts[slot + 1] = At(inPoints, i),
                              !.writes[slot + 1] = @ + 1])
             ELSE getPointsLoop(i + 1, inPoints, po, [r EXCEPT !.oob = TRUE])

\* A mutant of getPoints: the mapping is applied on the read side
\* (outPoints[i] = inPoints[pointOrder[i]]).
getPointsGather(inPoints, po) ==
    LET n == Len(inPoints)
    IN  [pts |-> [i \in 1..n |->
                    IF po[i] \in 0..(n - 1) THEN At(inPoints, po[i]) ELSE 0],
         writes |-> [i \in 1..n |-> 1],
         oob |-> \E i \in 1..n : po[i] \notin 0..(n - 1)]

\* getPoints, lines 25-42: outPoints is set to numVertices default points
\* (the origin, 0), then filled by the loop.
getPoints(inPoints, po) ==
    LET n == Len(inPoints)
    IN  getPointsLoop(0, inPoints, po,
          [pts |-> [i \in 1..n |-> 0],
           writes |-> [i \in 1..n |-> 0],
           oob |-> FALSE])

\* A mutant of getPolys: the remap is applied whatever the flag says.
getPolysAlways(counts, connects, po, reorderPoints) ==
    [counts |-> counts,
     connects |-> [i \in 1..Len(connects) |-> At(po, connects[i])]]

\* getPolys, lines 45-59.
getPolys(counts, connects, po, reorderPoints) ==
    [counts |-> counts,
     connects |-> IF reorderPoints
                  THEN [i \in 1..Len(connects) |-> At(po, connects[i])]
                  ELSE connects]

\* getFaceVertexList, lines 62-80: the (face id, vertex id) of every
\* face-corner, in the order of the connectivity array.
RECURSIVE getFaceVertexListLoop(_, _, _, _, _)
getFaceVertexListLoop(i, idx, polyCounts, polyConnects, r) ==
    IF i >= Len(polyCounts) THEN r
    ELSE LET n == At(polyCounts, i)
         IN  getFaceVertexListLoop(i + 1, idx + n, polyCounts, polyConnects,
               [faceList |-> r.faceList \o [j \in 1..n |-> i],
                vertexList |-> r.vertexList \o
                                 [j \in 1..n |-> polyConnects[idx + j]]])

getFaceVertexList(polyCounts, polyConnects) ==
    getFaceVertexListLoop(0, 0, polyCounts, polyConnects,
                          [faceList |-> <<>>, vertexList |-> <<>>])

\* setFaceVertexLocks, lines 172-187: the corners are split by their lock
\* flag, each side keeping the order of the enumeration. The code fills
\* arrays of numNormals entries and cuts them to L and UL entries before
\* each call; the sequences here are those arrays after the cut.
RECURSIVE lockPartitionLoop(_, _, _, _, _)
lockPartitionLoop(i, lockedList, faceList, vertexList, r) ==
    IF i >= Len(faceList) THEN r
    ELSE IF At(lockedList, i) = 1
         THEN lockPartitionLoop(i + 1, lockedList, faceList, vertexList,
                [r EXCEPT !.lockedFaceList = Append(@, At(faceList, i)),
                          !.lockedVertList = Append(@, At(vertexList, i))])
         ELSE lockPartitionLoop(i + 1, lockedList, faceList, vertexList,
                [r EXCEPT !.unlockedFaceList = Append(@, At(faceList, i)),
                          !.unlockedVertList = Append(@, At(vertexList, i))])

\* A mutant of lockPartition: a corner whose flag is 0 is dropped instead of
\* being handed to the unlock call.
lockPartitionDropsUnlocked(lockedList, faceList, vertexList) ==
    LET r == lockPartitionLoop(0, lockedList, faceList, vertexList,
               [lockedFaceList |-> <<>>, lockedVertList |-> <<>>,
                unlockedFaceList |-> <<>>, unlockedVertList |-> <<>>])
    IN  [r EXCEPT !.unlockedFaceList = <<>>, !.unlockedVertList = <<>>]

lockPartition(lockedList, faceList, vertexList) ==
    lockPartitionLoop(0, lockedList, faceList, vertexList,
      [lockedFaceList |-> <<>>, lockedVertList |-> <<>>,
       unlockedFaceList |-> <<>>, unlockedVertList |-> <<>>])

\* twoIntKey(v0, v1) = (v0 << 32) | v1, a 64-bit key; the key is written
\* here as its two 32-bit words <<high, low>>. The order of the arguments
\* is kept: the pair is not sorted.
twoIntKey(v0, v1) == <<v0, v1>>

\* std::unordered_map::emplace: a key already present keeps its value.
emplace(m, key, value) ==
    IF key \in DOMAIN m THEN m ELSE m @@ (key :> value)

\* getEdgeSmoothing, lines 215-225, over the edges the target's MItMeshEdge
\* reports, each a record [v0, v1, smooth] (index(0), index(1), isSmooth()).
RECURSIVE getEdgeSmoothingLoop(_, _, _, _)
getEdgeSmoothingLoop(k, edges, po, m) ==
    IF k > Len(edges) THEN m
    ELSE LET v0 == At(po, edges[k].v0)
             v1 == At(po, edges[k].v1)
         IN  getEdgeSmoothingLoop(k + 1, edges, po,
               emplace(m, twoIntKey(v0, v1), edges[k].smooth))

\* A mutant of getEdgeSmoothing: the keys are built from the target's own
\* ids, not from the remapped ones.
getEdgeSmoothingUnmapped(edges, po) ==
    getEdgeSmoothingLoop(1, edges, [i \in 1..Len(po) |-> i - 1], <<>>)

getEdgeSmoothing(edges, po) == getEdgeSmoothingLoop(1, edges, po, <<>>)

\* setEdgeSmoothing, lines 237-247, over the edges the output's MItMeshEdge
\* reports, each <<index(0), index(1)>>: the flags handed to setSmoothing,
\* edge by edge. edgeSmoothing[edgeKey] of a key that is absent inserts it
\* with the value false.
RECURSIVE setEdgeSmoothingLoop(_, _, _, _)
setEdgeSmoothingLoop(k, edges, m, flags) ==
    IF k > Len(edges) THEN flags
    ELSE LET edgeKey == twoIntKey(edges[k][1], edges[k][2])
             m2 == emplace(m, edgeKey, FALSE)
         IN  setEdgeSmoothingLoop(k + 1, edges, m2, Append(flags, m2[edgeKey]))

setEdgeSmoothing(edges, m) == setEdgeSmoothingLoop(1, edges, m, <<>>)

\* ------------------------------------------------------- the mesh store

\* setCast, line 365: a point is narrowed from double to float. A point is
\* a number here, and the floats are the even ones: an odd value is rounded
\* down to its neighbour.
setCast(p) == p - (p % 2)

\* The edges a mesh has, as MItMeshEdge walks them (lines 213-218, 235-240):
\* every face's sides in the order of its corners, a side two faces share
\* being one edge. Corner i's side runs to the next corner of its face.
RECURSIVE MeshEdgesLoop(_, _, _, _)
MeshEdgesLoop(i, faceList, vertexList, acc) ==
    IF i > Len(faceList) THEN acc
    ELSE LET first == CHOOSE c \in 1..i :
                        /\ faceList[c] = faceList[i]
                        /\ \A d \in 1..i : faceList[d] = faceList[i] => c <= d
             nxt == IF i < Len(faceList) /\ faceList[i + 1] = faceList[i]
                    THEN i + 1 ELSE first
             a == vertexList[i]
             b == vertexList[nxt]
             known == \E k \in 1..Len(acc) : {acc[k][1], acc[k][2]} = {a, b}
         IN  MeshEdgesLoop(i + 1, faceList, vertexList,
                           IF known THEN acc ELSE Append(acc, <<a, b>>))

MeshEdges(counts, connects) ==
    LET c == getFaceVertexList(counts, connects)
    IN  MeshEdgesLoop(1, c.faceList, c.vertexList, <<>>)

\* index(0) and index(1) of an edge: which endpoint the iterator names
\* first is the mesh's own choice; the edges in `flips` are named the
\* other way round.
ReportedEdges(edges, flips) ==
    [k \in 1..Len(edges) |->
        IF k \in flips THEN <<edges[k][2], edges[k][1]>> ELSE edges[k]]

\* The mesh before MFnMesh::create has made it (lines 346-356).
NullMesh ==
    [built |-> FALSE, points |-> <<>>, counts |-> <<>>, connects |-> <<>>,
     normals |-> <<>>, locks |-> <<>>, edges |-> <<>>, smooth |-> <<>>,
     uv |-> <<>>]

\* The mesh MFnMesh::create and createInPlace make (lines 348-356, 368-374):
\* the given geometry, computed normals (0) that are not locked, smooth
\* edges, and the default UV set, empty.
BuildMesh(pts, counts, connects, flips) ==
    LET e == ReportedEdges(MeshEdges(counts, connects), flips)
    IN  [built |-> TRUE, points |-> pts, counts |-> counts,
         connects |-> connects,
         normals |-> [i \in 1..Len(connects) |-> 0],
         locks |-> [i \in 1..Len(connects) |-> 0],
         edges |-> e,
         smooth |-> [k \in 1..Len(e) |-> TRUE],
         uv |-> ("map1" :> [uvs |-> <<>>, ids |-> <<>>])]

\* Whether the store can build a mesh from this geometry.
StoreAccepts(numVertices, counts, connects) ==
    /\ SumSeq(counts) = Len(connects)
    /\ \A i \in 1..Len(connects) : connects[i] \in 0..(numVertices - 1)

\* The corners of mesh m that the parallel arrays (faceList, vertexList) name.
Named(m, faceList, vertexList) ==
    LET c == getFaceVertexList(m.counts, m.connects)
    IN  {i \in 1..Len(m.connects) :
           \E k \in 1..Len(faceList) :
              faceList[k] = c.faceList[i] /\ vertexList[k] = c.vertexList[i]}

\* MFnMesh::setFaceVertexNormals (line 114): the named corners take the
\* given normals; a normal set by the user is locked.
StoreSetFaceVertexNormals(m, normals, faceList, vertexList) ==
    LET c == getFaceVertexList(m.counts, m.connects)
        from(i) == CHOOSE k \in 1..Len(faceList) :
                      faceList[k] = c.faceList[i] /\ vertexList[k] = c.vertexList[i]
        named == Named(m, faceList, vertexList)
    IN  [m EXCEPT
           !.normals = [i \in 1..Len(m.connects) |->
                          IF i \in named /\ from(i) <= Len(normals)
                          THEN normals[from(i)] ELSE m.normals[i]],
           !.locks = [i \in 1..Len(m.connects) |->
                        IF i \in named THEN 1 ELSE m.locks[i]]]

\* MFnMesh::unlockFaceVertexNormals (lines 117, 193).
StoreUnlock(m, faceList, vertexList) ==
    [m EXCEPT !.locks = [i \in 1..Len(m.connects) |->
        IF i \in Named(m, faceList, vertexList) THEN 0 ELSE m.locks[i]]]

\* MFnMesh::lockFaceVertexNormals (line 201).
StoreLock(m, faceList, vertexList) ==
    [m EXCEPT !.locks = [i \in 1..Len(m.connects) |->
        IF i \in Named(m, faceList, vertexList) THEN 1 ELSE m.locks[i]]]

\* ------------------------------------------------------------- the meshes

\* One face of n vertices.
Polygon(n) == [counts |-> <<n>>, connects |-> [i \in 1..n |-> i - 1]]

\* n - 2 triangles around vertex 0.
Fan(n) ==
    [counts |-> [f \in 1..(n - 2) |-> 3],
     connects |-> [c \in 1..(3 * (n - 2)) |->
                     IF (c - 1) % 3 = 0 THEN 0
                     ELSE ((c - 1) \div 3) + ((c - 1) % 3)]]

\* The tetrahedron: 4 vertices, 4 triangular faces.
Tetrahedron ==
    [counts |-> <<3, 3, 3, 3>>,
     connects |-> <<0, 1, 2,  0, 3, 1,  0, 2, 3,  1, 3, 2>>]

Topologies(n) ==
    {Polygon(n), Fan(n)} \cup (IF n = Cardinality({Tetrahedron.connects[i] : i \in DOMAIN Tetrahedron.connects})
         THEN {Tetrahedron} ELSE {})

PointOrders(n) == {po \in [1..n -> 0..(n - 1)] : IsBijection(po, n)}

\* Any array of n entries, each a vertex id or n, the first id out of range.
Mappings(n) == [1..n -> 0..n]

\* n points no two of which are equal, none of them a float.
DistinctPoints(n) == [i \in 1..n |-> 2 * i + 1]

Alternate(n) == [i \in 1..n |-> i % 2]

UVNames == {"map1", "uvSet1", "uvSet2"}

UVData(name) == [name |-> name, uvs |-> <<name, "uv">>, ids |-> <<name, "ids">>]

\* ------------------------------------------------------------ reorderMesh

VARIABLES
    sourceMesh,     \* reorderMesh's sourceMesh: [numVertices, counts, connects]
    targetMesh,     \* reorderMesh's targetMesh, the attributes' origin
    pointOrder,     \* pointOrder[old id] = new id
    isMeshData,     \* TRUE: a new mesh container; FALSE: rebuilt in place
    outFlip,        \* the output's edges whose endpoints it names in reverse
    mayFail,        \* the store calls that can fail in this run
    outMesh,        \* reorderMesh's outMesh
    points, pointWrites, polyCounts, polyConnects,
    vertexNormals, lockedList, edgeSmoothing, uvSets,   \* the locals
    uvAt,           \* setUVs: the set the loop is at, and the call due in it
    calls,          \* the store calls made on outMesh by the apply steps
    steps,          \* the steps of reorderMesh that have returned, with ok
    status,         \* what reorderMesh returned ("running" before it has)
    pc              \* the step reorderMesh is at

inputs == <<sourceMesh, targetMesh, pointOrder, isMeshData, outFlip, mayFail>>
locals == <<points, pointWrites, polyCounts, polyConnects, vertexNormals,
            lockedList, edgeSmoothing, uvSets>>
vars == <<inputs, locals, outMesh, uvAt, calls, steps, status, pc>>

\* The state reorderMesh starts in (lines 311-332) for the given meshes.
\* The source holds the target's faces in the numbering the build needs:
\* the target's own when getPolys remaps them, the new one otherwise. In
\* place, outMesh is a mesh that exists already; a new container is null.
InitWith(topo, po, md, pts, locks, smooth, tgtFlip, oFlip, uvNames, faults) ==
    LET n == Len(pts)
        e == ReportedEdges(MeshEdges(topo.counts, topo.connects), tgtFlip)
    IN  /\ targetMesh =
             [points |-> pts, counts |-> topo.counts, connects |-> topo.connects,
              normals |-> [i \in 1..Len(topo.connects) |-> i],
              locks |-> locks,
              edges |-> [k \in 1..Len(e) |->
                           [v0 |-> e[k][1], v1 |-> e[k][2], smooth |-> smooth[k]]],
              uvSets |-> [i \in 1..Len(uvNames) |-> UVData(uvNames[i])]]
        /\ sourceMesh =
             [numVertices |-> n, counts |-> topo.counts,
              connects |-> IF md \/ ~IsBijection(po, n) THEN topo.connects
                           ELSE [i \in 1..Len(topo.connects) |->
                                   At(po, topo.connects[i])]]
        /\ pointOrder = po
        /\ isMeshData = md
        /\ outFlip = oFlip
        /\ mayFail = faults
        /\ outMesh = IF md THEN NullMesh
                     ELSE BuildMesh([i \in 1..n |-> setCast(pts[i])],
                                    topo.counts, topo.connects, oFlip)
        /\ points = <<>> /\ pointWrites = <<>>
        /\ polyCounts = <<>> /\ polyConnects = <<>>
        /\ vertexNormals = <<>> /\ lockedList = <<>>
        /\ edgeSmoothing = <<>> /\ uvSets = <<>>
        /\ uvAt = [i |-> 1, at |-> "create"]
        /\ calls = <<>> /\ steps = <<>>
        /\ status = "running"
        /\ pc = "getPoints"

\* The calls on the mesh store whose status the code receives.
StoreCalls ==
    {"getNormalIds", "getUVs", "getAssignedUVs", "create", "createInPlace",
     "createUVSet", "clearUVs", "setUVs", "assignUVs", "setFaceVertexNormals",
     "unlockFaceVertexNormals", "lockFaceVertexNormals", "getVertices"}

\* The results a store call can have: TRUE is success.
Results(call) == IF call \in mayFail THEN BOOLEAN ELSE {TRUE}

NumEdges(topo) == Len(MeshEdges(topo.counts, topo.connects))

\* Every point order that is a bijection, on every mesh, in both build
\* modes; one pattern of attributes.
Init ==
    \E n \in 3..MaxVerts : \E topo \in Topologies(n) :
    \E po \in PointOrders(n) : \E md \in BOOLEAN :
        InitWith(topo, po, md, DistinctPoints(n),
                 Alternate(Len(topo.connects)),
                 [k \in 1..NumEdges(topo) |-> k % 2 = 0],
                 {}, {}, <<"map1", "uvSet1">>, StoreCalls)

Returned(step, ok) == steps' = Append(steps, [step |-> step, ok |-> ok])

Call(by, op, args, ok) == [by |-> by, op |-> op, args |-> args, ok |-> ok]

Called(by, op, args, ok) == Append(calls, Call(by, op, args, ok))

\* Line 334. A set() on a slot outside outPoints either writes nothing or
\* writes outside the array, after which nothing is defined.
GetPoints ==
    /\ pc = "getPoints"
    /\ LET r == getPoints(targetMesh.points, pointOrder)
       IN  /\ points' = r.pts
           /\ pointWrites' = r.writes
           /\ \E to \in (IF r.oob THEN {"getPolys", "undefined"} ELSE {"getPolys"}) :
                 pc' = to
    /\ Returned("getPoints", TRUE)
    /\ UNCHANGED <<inputs, polyCounts, polyConnects, vertexNormals, lockedList,
                   edgeSmoothing, uvSets, outMesh, uvAt, calls, status>>

\* Line 335.
GetPolys ==
    /\ pc = "getPolys"
    /\ LET r == getPolys(sourceMesh.counts, sourceMesh.connects, pointOrder,
                         isMeshData)
       IN  /\ polyCounts' = r.counts
           /\ polyConnects' = r.connects
    /\ pc' = "getFaceVertexNormals"
    /\ Returned("getPolys", TRUE)
    /\ UNCHANGED <<inputs, points, pointWrites, vertexNormals, lockedList,
                   edgeSmoothing, uvSets, outMesh, uvAt, calls, status>>

\* Lines 337-339 and getFaceVertexNormals, lines 83-100: one normal per
\* corner of the target, written into an array as long as polyConnects; a
\* target with more corners than that writes past its end.
GetFaceVertexNormals ==
    /\ pc = "getFaceVertexNormals"
    /\ LET n == Min(Len(polyConnects), Len(targetMesh.normals))
       IN  vertexNormals' = [i \in 1..Len(polyConnects) |->
                               IF i <= n THEN targetMesh.normals[i] ELSE 0]
    /\ pc' = IF Len(targetMesh.normals) > Len(polyConnects)
             THEN "undefined" ELSE "getFaceVertexLocks"
    /\ Returned("getFaceVertexNormals", TRUE)
    /\ UNCHANGED <<inputs, points, pointWrites, polyCounts, polyConnects,
                   lockedList, edgeSmoothing, uvSets, outMesh, uvAt, calls, status>>

\* Line 340 and getFaceVertexLocks, lines 123-145: getNormalIds may fail,
\* and then lockedList stays empty; reorderMesh does not look at the status.
GetFaceVertexLocks ==
    /\ pc = "getFaceVertexLocks"
    /\ \E ok \in Results("getNormalIds") :
          /\ lockedList' = IF ok THEN targetMesh.locks ELSE <<>>
          /\ Returned("getFaceVertexLocks", ok)
    /\ pc' = "getEdgeSmoothing"
    /\ UNCHANGED <<inputs, points, pointWrites, polyCounts, polyConnects,
                   vertexNormals, edgeSmoothing, uvSets, outMesh, uvAt, calls, status>>

\* Line 341.
GetEdgeSmoothing ==
    /\ pc = "getEdgeSmoothing"
    /\ edgeSmoothing' = getEdgeSmoothing(targetMesh.edges, pointOrder)
    /\ pc' = "getUVs"
    /\ Returned("getEdgeSmoothing", TRUE)
    /\ UNCHANGED <<inputs, points, pointWrites, polyCounts, polyConnects,
                   vertexNormals, lockedList, uvSets, outMesh, uvAt, calls, status>>

\* Line 342 and getUVs, lines 253-280: every set gets its name, then the
\* sets are read one by one, two store calls each, until a call fails; f is
\* the number of calls that succeed. reorderMesh does not look at the status.
GetUVs ==
    /\ pc = "getUVs"
    /\ LET n == Len(targetMesh.uvSets)
           \* call 2i-1 is set i's getUVs, call 2i its getAssignedUVs
           canFail(c) == IF c % 2 = 1 THEN "getUVs" \in mayFail
                         ELSE "getAssignedUVs" \in mayFail
       IN  \E f \in {2 * n} \cup {c \in 0..(2 * n - 1) : canFail(c + 1)} :
              /\ uvSets' = [i \in 1..n |->
                    [name |-> targetMesh.uvSets[i].name,
                     uvs |-> IF 2 * i - 1 <= f THEN targetMesh.uvSets[i].uvs ELSE <<>>,
                     ids |-> IF 2 * i <= f THEN targetMesh.uvSets[i].ids ELSE <<>>]]
              /\ Returned("getUVs", f = 2 * n)
    /\ pc' = "build"
    /\ UNCHANGED <<inputs, points, pointWrites, polyCounts, polyConnects,
                   vertexNormals, lockedList, edgeSmoothing, outMesh, uvAt, calls, status>>

\* A mutant of AfterBuild: the locks are applied first, before the normals.
AfterBuildLocksFirst == "setFaceVertexLocks"

\* Where reorderMesh goes once the mesh is built: setUVs (line 379), whose
\* loop has nothing to do when there is no set.
AfterBuild == IF uvSets = <<>> THEN "setFaceVertexNormals" ELSE "setUVs"

\* Lines 344-358: a new mesh container; its failure is returned.
Create ==
    /\ pc = "build"
    /\ isMeshData
    /\ \E ok \in (IF StoreAccepts(sourceMesh.numVertices, polyCounts, polyConnects)
                  THEN Results("create") ELSE {FALSE}) :
          /\ outMesh' = IF ok THEN BuildMesh(points, polyCounts, polyConnects, outFlip)
                        ELSE outMesh
          /\ pc' = IF ok THEN AfterBuild ELSE "done"
          /\ status' = IF ok THEN status ELSE "kFailure"
          /\ Returned("create", ok)
    /\ UNCHANGED <<inputs, locals, uvAt, calls>>

\* Lines 359-377: the mesh is rebuilt in place from the points cast to
\* float. createInPlace's status is not stored: line 376 tests the status
\* declared at line 313, which is still kSuccess.
CreateInPlace ==
    /\ pc = "build"
    /\ ~isMeshData
    /\ \E ok \in (IF StoreAccepts(sourceMesh.numVertices, polyCounts, polyConnects)
                  THEN Results("createInPlace") ELSE {FALSE}) :
          /\ outMesh' = IF ok
                        THEN BuildMesh([i \in 1..sourceMesh.numVertices |-> setCast(points[i])],
                                       polyCounts, polyConnects, outFlip)
                        ELSE outMesh
          /\ Returned("createInPlace", ok)
    /\ pc' = AfterBuild
    /\ UNCHANGED <<inputs, locals, uvAt, calls, status>>

\* A step's failure handed back by reorderMesh (RETURN_IF_ERROR, lines
\* 380-389).
Fails(step) ==
    /\ Returned(step, FALSE)
    /\ status' = "kFailure"
    /\ pc' = "done"

uvData == uvSets[uvAt.i]

NoUVs == [uvs |-> <<>>, ids |-> <<>>]

\* A mutant of CreateUVSet: a failed createUVSet is returned, as if line 294
\* were CHECK_MSTATUS_AND_RETURN_IT.
CreateUVSetFatal ==
    /\ pc = "setUVs"
    /\ uvAt.at = "create"
    /\ uvData.name # "map1"
    /\ \E ok \in Results("createUVSet") :
          /\ calls' = Called("setUVs", "createUVSet", uvData.name, ok)
          /\ outMesh' = IF ok /\ uvData.name \notin DOMAIN outMesh.uv
                        THEN [outMesh EXCEPT !.uv = @ @@ (uvData.name :> NoUVs)]
                        ELSE outMesh
          /\ IF ok
             THEN /\ uvAt' = [uvAt EXCEPT !.at = "clear"]
                  /\ UNCHANGED <<steps, status, pc>>
             ELSE /\ Fails("setUVs")
                  /\ UNCHANGED uvAt
    /\ UNCHANGED <<inputs, locals>>

\* setUVs, lines 291-295: a set other than map1 is created; CHECK_MSTATUS
\* reports a failure and goes on.
CreateUVSet ==
    /\ pc = "setUVs"
    /\ uvAt.at = "create"
    /\ uvData.name # "map1"
    /\ \E ok \in Results("createUVSet") :
          /\ calls' = Called("setUVs", "createUVSet", uvData.name, ok)
          /\ outMesh' = IF ok /\ uvData.name \notin DOMAIN outMesh.uv
                        THEN [outMesh EXCEPT !.uv = @ @@ (uvData.name :> NoUVs)]
                        ELSE outMesh
    /\ uvAt' = [uvAt EXCEPT !.at = "clear"]
    /\ UNCHANGED <<inputs, locals, steps, status, pc>>

\* setUVs, lines 297-298; the first call of the iteration for map1. A set
\* the mesh does not have cannot be cleared.
ClearUVs ==
    /\ pc = "setUVs"
    /\ uvAt.at = "clear" \/ (uvAt.at = "create" /\ uvData.name = "map1")
    /\ \E ok \in (IF uvData.name \in DOMAIN outMesh.uv
                  THEN Results("clearUVs") ELSE {FALSE}) :
          /\ calls' = Called("setUVs", "clearUVs", uvData.name, ok)
          /\ outMesh' = IF ok THEN [outMesh EXCEPT !.uv[uvData.name] = NoUVs]
                        ELSE outMesh
          /\ IF ok
             THEN /\ uvAt' = [uvAt EXCEPT !.at = "setUVs"]
                  /\ UNCHANGED <<steps, status, pc>>
             ELSE /\ Fails("setUVs")
                  /\ UNCHANGED uvAt
    /\ UNCHANGED <<inputs, locals>>

\* setUVs, lines 300-301: MFnMesh::setUVs writes the coordinates.
WriteUVs ==
    /\ pc = "setUVs"
    /\ uvAt.at = "setUVs"
    /\ \E ok \in Results("setUVs") :
          /\ calls' = Called("setUVs", "setUVs", uvData.name, ok)
          /\ outMesh' = IF ok THEN [outMesh EXCEPT !.uv[uvData.name].uvs = uvData.uvs]
                        ELSE outMesh
          /\ IF ok
             THEN /\ uvAt' = [uvAt EXCEPT !.at = "assignUVs"]
                  /\ UNCHANGED <<steps, status, pc>>
             ELSE /\ Fails("setUVs")
                  /\ UNCHANGED uvAt
    /\ UNCHANGED <<inputs, locals>>

\* setUVs, lines 303-307: the per-corner assignments; after the last set
\* setUVs returns kSuccess and reorderMesh goes on (lines 379-382).
AssignUVs ==
    /\ pc = "setUVs"
    /\ uvAt.at = "assignUVs"
    /\ \E ok \in Results("assignUVs") :
          /\ calls' = Called("setUVs", "assignUVs", uvData.name, ok)
          /\ outMesh' = IF ok THEN [outMesh EXCEPT !.uv[uvData.name].ids = uvData.ids]
                        ELSE outMesh
          /\ IF ~ok
             THEN /\ Fails("setUVs")
                  /\ UNCHANGED uvAt
             ELSE IF uvAt.i < Len(uvSets)
             THEN /\ uvAt' = [i |-> uvAt.i + 1, at |-> "create"]
                  /\ UNCHANGED <<steps, status, pc>>
             ELSE /\ Returned("setUVs", TRUE)
                  /\ pc' = "setFaceVertexNormals"
                  /\ UNCHANGED <<uvAt, status>>
    /\ UNCHANGED <<inputs, locals>>

\* Lines 382-383 and setFaceVertexNormals, lines 103-121: the normals are
\* set on every corner, then every corner is unlocked.
SetFaceVertexNormals ==
    /\ pc = "setFaceVertexNormals"
    /\ LET c == getFaceVertexList(polyCounts, polyConnects)
           args == [faceList |-> c.faceList, vertexList |-> c.vertexList]
           set == StoreSetFaceVertexNormals(outMesh, vertexNormals,
                                            c.faceList, c.vertexList)
       IN  \E fail \in {"none"} \cup
                ({"setFaceVertexNormals", "unlockFaceVertexNormals"} \cap mayFail) :
              IF fail = "setFaceVertexNormals"
              THEN /\ calls' = Called("setFaceVertexNormals", "setFaceVertexNormals", args, FALSE)
                   /\ outMesh' = outMesh
                   /\ Fails("setFaceVertexNormals")
              ELSE IF fail = "unlockFaceVertexNormals"
              THEN /\ calls' = calls \o
                        <<Call("setFaceVertexNormals", "setFaceVertexNormals", args, TRUE),
                          Call("setFaceVertexNormals", "unlockFaceVertexNormals", args, FALSE)>>
                   /\ outMesh' = set
                   /\ Fails("setFaceVertexNormals")
              ELSE /\ calls' = calls \o
                        <<Call("setFaceVertexNormals", "setFaceVertexNormals", args, TRUE),
                          Call("setFaceVertexNormals", "unlockFaceVertexNormals", args, TRUE)>>
                   /\ outMesh' = StoreUnlock(set, c.faceList, c.vertexList)
                   /\ Returned("setFaceVertexNormals", TRUE)
                   /\ pc' = "setFaceVertexLocks"
                   /\ status' = status
    /\ UNCHANGED <<inputs, locals, uvAt>>

\* Lines 385-386 and setFaceVertexLocks, lines 147-206. The corners are
\* those of outMesh (getVertices, line 159); lockedList[i] is read for each
\* of them, past its end when it is shorter, and then nothing is defined.
\* The unlock call is made only if UL > 0, the lock call only if L > 0, and
\* the first call that fails is returned.
SetFaceVertexLocks ==
    /\ pc = "setFaceVertexLocks"
    /\ LET c == getFaceVertexList(outMesh.counts, outMesh.connects)
           defined == Len(lockedList) >= Len(outMesh.connects)
           p == lockPartition(lockedList, c.faceList, c.vertexList)
           UL == Len(p.unlockedFaceList)
           L == Len(p.lockedFaceList)
           unlockArgs == [faceList |-> p.unlockedFaceList,
                          vertexList |-> p.unlockedVertList]
           lockArgs == [faceList |-> p.lockedFaceList,
                        vertexList |-> p.lockedVertList]
           unlock(ok) == IF UL > 0
                         THEN <<Call("setFaceVertexLocks", "unlockFaceVertexNormals",
                                     unlockArgs, ok)>>
                         ELSE <<>>
           lock(ok) == IF L > 0
                       THEN <<Call("setFaceVertexLocks", "lockFaceVertexNormals",
                                   lockArgs, ok)>>
                       ELSE <<>>
           unlocked == IF UL > 0
                       THEN StoreUnlock(outMesh, p.unlockedFaceList, p.unlockedVertList)
                       ELSE outMesh
           locked == IF L > 0
                     THEN StoreLock(unlocked, p.lockedFaceList, p.lockedVertList)
                     ELSE unlocked
           outcomes ==
               (IF "getVertices" \in mayFail THEN {"getVertices"} ELSE {}) \cup
               (IF ~defined THEN {"undefined"}
                ELSE {"none"}
                     \cup (IF UL > 0 /\ "unlockFaceVertexNormals" \in mayFail
                           THEN {"unlock"} ELSE {})
                     \cup (IF L > 0 /\ "lockFaceVertexNormals" \in mayFail
                           THEN {"lock"} ELSE {}))
       IN  \E o \in outcomes :
              IF o = "getVertices"
              THEN /\ UNCHANGED <<calls, outMesh>>
                   /\ Fails("setFaceVertexLocks")
              ELSE IF o = "undefined"
              THEN /\ UNCHANGED <<calls, outMesh, steps, status>>
                   /\ pc' = "undefined"
              ELSE IF o = "unlock"
              THEN /\ calls' = calls \o unlock(FALSE)
                   /\ outMesh' = outMesh
                   /\ Fails("setFaceVertexLocks")
              ELSE IF o = "lock"
              THEN /\ calls' = calls \o unlock(TRUE) \o lock(FALSE)
                   /\ outMesh' = unlocked
                   /\ Fails("setFaceVertexLocks")
              ELSE /\ calls' = calls \o unlock(TRUE) \o lock(TRUE)
                   /\ outMesh' = locked
                   /\ Returned("setFaceVertexLocks", TRUE)
                   /\ pc' = "setEdgeSmoothing"
                   /\ status' = status
    /\ UNCHANGED <<inputs, locals, uvAt>>

\* Lines 388-391 and setEdgeSmoothing, lines 231-250: every edge of outMesh
\* is given the flag found under its key; reorderMesh returns kSuccess.
SetEdgeSmoothing ==
    /\ pc = "setEdgeSmoothing"
    /\ LET flags == setEdgeSmoothing(outMesh.edges, edgeSmoothing)
       IN  /\ outMesh' = [outMesh EXCEPT !.smooth = flags]
           /\ calls' = Called("setEdgeSmoothing", "setSmoothing", flags, TRUE)
    /\ Returned("setEdgeSmoothing", TRUE)
    /\ status' = "kSuccess"
    /\ pc' = "done"
    /\ UNCHANGED <<inputs, locals, uvAt>>

Next ==
    \/ GetPoints \/ GetPolys \/ GetFaceVertexNormals \/ GetFaceVertexLocks
    \/ GetEdgeSmoothing \/ GetUVs
    \/ Create \/ CreateInPlace
    \/ CreateUVSet \/ ClearUVs \/ WriteUVs \/ AssignUVs
    \/ SetFaceVertexNormals \/ SetFaceVertexLocks \/ SetEdgeSmoothing

Spec == Init /\ [][Next]_vars

\* ----------------------------------------------------------------- claims

NumVertices == Len(targetMesh.points)

Ran(step) == \E k \in 1..Len(steps) : steps[k].step = step

RanOk(step) == \E k \in 1..Len(steps) : steps[k].step = step /\ steps[k].ok

Remapped(connects) == [i \in 1..Len(connects) |-> pointOrder[connects[i] + 1]]

\* C5: the face counts getPolys returns are the source's; with the remap
\* flag set every connectivity entry v is pointOrder[v], at the same place,
\* and without it the connectivity is the source's.
C5_GetPolys ==
    Ran("getPolys") =>
        /\ polyCounts = sourceMesh.counts
        /\ Len(polyConnects) = Len(sourceMesh.connects)
        /\ \A i \in 1..Len(polyConnects) :
              polyConnects[i] = IF isMeshData
                                THEN pointOrder[sourceMesh.connects[i] + 1]
                                ELSE sourceMesh.connects[i]

C5_Witness ==
    /\ Ran("getPolys")
    /\ isMeshData
    /\ polyConnects # sourceMesh.connects

IsTetrahedronScenario ==
    /\ targetMesh.counts = Tetrahedron.counts
    /\ targetMesh.connects = Tetrahedron.connects
    /\ pointOrder = <<2, 0, 3, 1>>
    /\ Ran("getPolys")

OldVertexOneBecomesZero ==
    isMeshData =>
        \A i \in 1..Len(polyConnects) :
            sourceMesh.connects[i] = 1 => polyConnects[i] = 0

\* C9 as stated: in the tetrahedron scenario old point 1's position is at
\* new index 0, old point 2's position at new index 1, and every remapped
\* connectivity entry that named old vertex 1 is 0.
C9_AsStated ==
    IsTetrahedronScenario =>
        /\ At(points, 0) = At(targetMesh.points, 1)
        /\ At(points, 1) = At(targetMesh.points, 2)
        /\ OldVertexOneBecomesZero

\* C9, amended: in the tetrahedron scenario old point 1's position is at
\* new index 0, old point 2's position at new index 3 (new index 1 holds
\* old point 3's), and every remapped connectivity entry that named old
\* vertex 1 is 0.
C9_Tetrahedron ==
    IsTetrahedronScenario =>
        /\ At(points, 0) = At(targetMesh.points, 1)
        /\ At(points, 3) = At(targetMesh.points, 2)
        /\ At(points, 1) = At(targetMesh.points, 3)
        /\ OldVertexOneBecomesZero

C9_Witness ==
    /\ IsTetrahedronScenario
    /\ isMeshData
    /\ \E i \in 1..Len(polyConnects) :
          sourceMesh.connects[i] = 1 /\ polyConnects[i] = 0

\* The steps of reorderMesh, lines 334-389, in the order of the code.
StepOrder ==
    <<"getPoints", "getPolys", "getFaceVertexNormals", "getFaceVertexLocks",
      "getEdgeSmoothing", "getUVs",
      IF isMeshData THEN "create" ELSE "createInPlace",
      "setUVs", "setFaceVertexNormals", "setFaceVertexLocks", "setEdgeSmoothing">>

\* C3 as stated: a step that reports failure is the last step reorderMesh
\* runs, and reorderMesh returns its failure.
C3_StopsAtFirstFailure ==
    \A k \in 1..Len(steps) :
        ~steps[k].ok => /\ k = Len(steps)
                        /\ status = "kFailure"
                        /\ pc = "done"

\* C7: the steps run in the order of StepOrder, so the four extractions
\* come before the build and the four applications after it, the locks
\* right after the normals; no store call is made on the output before the
\* build; the normals applied on a mesh that was built leave every corner
\* unlocked; and once the locks are applied the corners locked on the
\* output are those flagged in lockedList, to the end of the run.
C7_StepOrder ==
    /\ Len(steps) <= Len(StepOrder)
    /\ \A k \in 1..Len(steps) : steps[k].step = StepOrder[k]
    /\ calls # <<>> => (Ran("create") \/ Ran("createInPlace"))
    /\ \A a, b \in 1..Len(calls) :
          (a < b /\ calls[a].by = "setFaceVertexLocks") =>
              calls[b].by \in {"setFaceVertexLocks", "setEdgeSmoothing"}
    /\ (pc = "setFaceVertexLocks" /\ (RanOk("create") \/ RanOk("createInPlace"))) =>
          \A i \in 1..Len(outMesh.locks) : outMesh.locks[i] = 0
    /\ RanOk("setFaceVertexLocks") =>
          \A i \in 1..Len(outMesh.locks) :
              outMesh.locks[i] = IF lockedList[i] = 1 THEN 1 ELSE 0

C7_Witness ==
    /\ pc = "done"
    /\ status = "kSuccess"
    /\ \E i, j \in 1..Len(outMesh.locks) :
          outMesh.locks[i] = 1 /\ outMesh.locks[j] = 0

\* C10: isMeshData alone decides the build and the remap: with it a new
\* container is created from the connectivity remapped through pointOrder,
\* without it the mesh is rebuilt in place from the source's connectivity
\* as it is, while the points are still placed by pointOrder and the
\* smoothing keys are still those of the remapped endpoints.
C10_FlagDecidesBoth ==
    (Ran("create") \/ Ran("createInPlace")) =>
        /\ Ran("create") <=> isMeshData
        /\ Ran("createInPlace") <=> ~isMeshData
        /\ polyConnects = IF isMeshData THEN Remapped(sourceMesh.connects)
                          ELSE sourceMesh.connects
        /\ RanOk("create") => outMesh.connects = Remapped(sourceMesh.connects)
        /\ RanOk("createInPlace") =>
              /\ outMesh.connects = sourceMesh.connects
              /\ \A i \in 1..NumVertices :
                    outMesh.points[pointOrder[i] + 1] = setCast(targetMesh.points[i])
        /\ ~isMeshData =>
              /\ \A i \in 1..NumVertices :
                    points[pointOrder[i] + 1] = targetMesh.points[i]
              /\ DOMAIN edgeSmoothing =
                    {twoIntKey(At(pointOrder, targetMesh.edges[k].v0),
                               At(pointOrder, targetMesh.edges[k].v1)) :
                       k \in 1..Len(targetMesh.edges)}

C10_Witness ==
    /\ ~isMeshData
    /\ pc = "done"
    /\ status = "kSuccess"
    /\ RanOk("createInPlace")
    /\ points # targetMesh.points
    /\ outMesh.connects # targetMesh.connects

\* ------------------------------------------------ getPoints on any points

\* The point order that sends each old id to the next one, the last to 0.
Rotation(n) == [i \in 1..n |-> i % n]

PointValues == {1, 2}

\* Every point order that is a bijection, on every array of points; no
\* store call fails.
InitPoints ==
    \E n \in 3..MaxVerts : \E po \in PointOrders(n) : \E md \in BOOLEAN :
    \E pts \in [1..n -> PointValues] :
        InitWith(Polygon(n), po, md, pts, Alternate(n),
                 [k \in 1..n |-> k % 2 = 0], {}, {}, <<"map1", "uvSet1">>, {})

SpecPoints == InitPoints /\ [][Next]_vars

Inverse(po) == [j \in 1..Len(po) |-> (CHOOSE i \in 1..Len(po) : po[i] = j - 1) - 1]

\* C1: for a pointOrder that is a bijection over [0, N) and any N target
\* points, getPoints returns N points with newPoints[pointOrder[i]] =
\* targetPoints[i], each slot written exactly once; remapping the result
\* with the inverse order gives the target's points back.
C1_GetPoints ==
    Ran("getPoints") =>
        /\ Len(points) = NumVertices
        /\ \A i \in 0..(NumVertices - 1) :
              At(points, At(pointOrder, i)) = At(targetMesh.points, i)
        /\ \A slot \in 1..NumVertices : pointWrites[slot] = 1
        /\ getPoints(points, Inverse(pointOrder)).pts = targetMesh.points

C1_Witness ==
    /\ Ran("getPoints")
    /\ IsBijection(pointOrder, NumVertices)
    /\ points # targetMesh.points
    /\ pointOrder # Inverse(pointOrder)

\* ------------------------------------------- setFaceVertexLocks on any flags

\* Every sequence of lock flags on the corners of a polygon and of a fan;
\* the store calls of setFaceVertexLocks can fail.
InitLocks ==
    \E n \in 3..MaxVerts : \E topo \in {Polygon(n), Fan(n)} :
    \E md \in BOOLEAN : \E locks \in [1..Len(topo.connects) -> {0, 1}] :
        InitWith(topo, Rotation(n), md, DistinctPoints(n), locks,
                 [k \in 1..NumEdges(topo) |-> k % 2 = 0], {}, {},
                 <<"map1", "uvSet1">>,
                 {"getVertices", "unlockFaceVertexNormals", "lockFaceVertexNormals"})

SpecLocks == InitLocks /\ [][Next]_vars

LockCalls(op) ==
    SelectSeq(calls, LAMBDA c : c.by = "setFaceVertexLocks" /\ c.op = op)

\* The corners of the output whose flag is (want = 1) or is not (want = 0) 1.
Flagged(want) ==
    {i \in 1..Len(outMesh.connects) : (lockedList[i] = 1) <=> (want = 1)}

\* The call's arrays name exactly the corners in `corners`, in their order:
\* the k-th corner of the set is the k-th entry.
NamesExactly(args, corners) ==
    LET c == getFaceVertexList(outMesh.counts, outMesh.connects)
        rank(i) == Cardinality({j \in corners : j <= i})
    IN  /\ Len(args.faceList) = Cardinality(corners)
        /\ Len(args.vertexList) = Cardinality(corners)
        /\ \A i \in corners :
              /\ args.faceList[rank(i)] = c.faceList[i]
              /\ args.vertexList[rank(i)] = c.vertexList[i]

\* C6: with lock flags aligned to the output's corners, the lock call gets
\* exactly the corners flagged 1 and the unlock call exactly the others,
\* each in the order of the enumeration, together all the corners; the
\* unlock call comes first; a call for an empty subset is not made, and
\* setFaceVertexLocks fails only when a store call it made failed.
C6_LockPartition ==
    (Ran("setFaceVertexLocks") /\ Len(lockedList) = Len(outMesh.connects)) =>
        LET u == LockCalls("unlockFaceVertexNormals")
            l == LockCalls("lockFaceVertexNormals")
            mine == SelectSeq(calls, LAMBDA c : c.by = "setFaceVertexLocks")
        IN  /\ Len(u) <= 1 /\ Len(l) <= 1
            /\ Len(mine) = Len(u) + Len(l)
            /\ (u # <<>> /\ l # <<>>) => mine[1] = u[1] /\ u[1].ok
            /\ u # <<>> => /\ Flagged(0) # {}
                           /\ NamesExactly(u[1].args, Flagged(0))
            /\ l # <<>> => /\ Flagged(1) # {}
                           /\ NamesExactly(l[1].args, Flagged(1))
            /\ Flagged(0) \cap Flagged(1) = {}
            /\ Flagged(0) \cup Flagged(1) = 1..Len(outMesh.connects)
            /\ RanOk("setFaceVertexLocks") =>
                  /\ u # <<>> <=> Flagged(0) # {}
                  /\ l # <<>> <=> Flagged(1) # {}
                  /\ \A k \in 1..Len(mine) : mine[k].ok
                  /\ SumSeq([k \in 1..Len(mine) |-> Len(mine[k].args.faceList)])
                        = Len(outMesh.connects)
            /\ ~RanOk("setFaceVertexLocks") =>
                  \/ mine = <<>> /\ "getVertices" \in mayFail
                  \/ mine # <<>> /\ ~mine[Len(mine)].ok

\* The quad of the spec's scenario: corners 0 and 2 locked, 1 and 3 not.
C6_Witness ==
    /\ RanOk("setFaceVertexLocks")
    /\ outMesh.counts = <<4>>
    /\ lockedList = <<1, 0, 1, 0>>
    /\ Len(LockCalls("lockFaceVertexNormals")) = 1
    /\ Len(LockCalls("lockFaceVertexNormals")[1].args.faceList) = 2
    /\ Len(LockCalls("unlockFaceVertexNormals")) = 1
    /\ outMesh.locks = <<1, 0, 1, 0>>

\* ------------------------------------------------------ setUVs on any sets

\* The sequences of at most maxLen names, no name twice.
NameLists(maxLen) ==
    {l \in UNION {[1..k -> UVNames] : k \in 1..maxLen} :
        \A i, j \in 1..Len(l) : i # j => l[i] # l[j]}

\* Every list of UV sets on the target; the store calls of setUVs can fail.
InitUV ==
    \E n \in 3..MaxVerts : \E md \in BOOLEAN : \E names \in NameLists(MaxUVSets) :
        InitWith(Polygon(n), Rotation(n), md, DistinctPoints(n), Alternate(n),
                 [k \in 1..n |-> k % 2 = 0], {}, {}, names,
                 {"createUVSet", "clearUVs", "setUVs", "assignUVs"})

SpecUV == InitUV /\ [][Next]_vars

UVCalls == SelectSeq(calls, LAMBDA c : c.by = "setUVs")

\* The calls setUVs makes when none of them stops it: per set, in order,
\* create (not for map1), clear, coordinates, assignments.
RECURSIVE Protocol(_)
Protocol(sets) ==
    IF sets = <<>> THEN <<>>
    ELSE LET name == Head(sets).name
         IN  (IF name # "map1" THEN << <<"createUVSet", name>> >> ELSE <<>>)
             \o << <<"clearUVs", name>>, <<"setUVs", name>>, <<"assignUVs", name>> >>
             \o Protocol(Tail(sets))

\* C8: the calls of setUVs are a prefix of Protocol(uvSets): the sets in
\* the extracted order, create only for a set other than map1, then clear,
\* coordinates, assignments. A failed clear, coordinate or assignment call
\* is the last call and its failure is what reorderMesh returns; a failed
\* create never ends setUVs, which returns only after the last call of the
\* protocol or after such a failed call.
C8_SetUVsProtocol ==
    LET c == UVCalls
        want == Protocol(uvSets)
        fatal(k) == ~c[k].ok /\ c[k].op # "createUVSet"
    IN  /\ Len(c) <= Len(want)
        /\ \A k \in 1..Len(c) : <<c[k].op, c[k].args>> = want[k]
        /\ \A k \in 1..Len(c) :
              fatal(k) => /\ k = Len(c)
                          /\ status = "kFailure"
                          /\ pc = "done"
                          /\ steps[Len(steps)] = [step |-> "setUVs", ok |-> FALSE]
        /\ RanOk("setUVs") => Len(c) = Len(want)
        /\ (Ran("setUVs") /\ ~RanOk("setUVs")) => (c # <<>> /\ fatal(Len(c)))
        /\ (pc = "setUVs" /\ c # <<>>) => ~fatal(Len(c))

\* A create that failed, and the clear of that set made all the same.
C8_Witness ==
    \E k \in 1..Len(UVCalls) :
        /\ UVCalls[k].op = "createUVSet"
        /\ ~UVCalls[k].ok
        /\ k < Len(UVCalls)
        /\ UVCalls[k + 1].op = "clearUVs"
        /\ UVCalls[k + 1].args = UVCalls[k].args
        /\ k > 1

\* -------------------------------------------- edges named in either order

\* At most one edge named in reverse.
Flips(n) == {{}} \cup {{k} : k \in 1..n}

\* Every point order that is a bijection on a polygon whose edges are all
\* smooth, all hard or mixed, the target and the output each naming at
\* most one edge in reverse; no store call fails.
InitEdges ==
    \E n \in 3..MaxVerts : \E po \in PointOrders(n) : \E md \in BOOLEAN :
    \E smooth \in {[k \in 1..n |-> TRUE], [k \in 1..n |-> FALSE],
                   [k \in 1..n |-> k % 2 = 0]} :
    \E tgtFlip \in Flips(n) : \E oFlip \in Flips(n) :
        InitWith(Polygon(n), po, md, DistinctPoints(n), Alternate(n),
                 smooth, tgtFlip, oFlip, <<"map1", "uvSet1">>, {})

SpecEdges == InitEdges /\ [][Next]_vars

\* C2 as stated: once the smoothing is applied, for every edge of the
\* target with endpoints (v0, v1) and flag f, the edge of the output that
\* joins pointOrder[v0] and pointOrder[v1] has flag f, whichever endpoint
\* each mesh names first.
C2_SmoothingSurvives ==
    RanOk("setEdgeSmoothing") =>
        \A k \in 1..Len(targetMesh.edges) : \A j \in 1..Len(outMesh.edges) :
            {outMesh.edges[j][1], outMesh.edges[j][2]} =
              {At(pointOrder, targetMesh.edges[k].v0),
               At(pointOrder, targetMesh.edges[k].v1)}
            => outMesh.smooth[j] = targetMesh.edges[k].smooth

\* The part of C2 the code does give: the same, for the edges the two
\* meshes name the same way round, and for every hard edge.
SmoothingSurvivesSameOrder ==
    RanOk("setEdgeSmoothing") =>
        \A k \in 1..Len(targetMesh.edges) : \A j \in 1..Len(outMesh.edges) :
            /\ {outMesh.edges[j][1], outMesh.edges[j][2]} =
                 {At(pointOrder, targetMesh.edges[k].v0),
                  At(pointOrder, targetMesh.edges[k].v1)}
            /\ \/ outMesh.edges[j][1] = At(pointOrder, targetMesh.edges[k].v0)
               \/ ~targetMesh.edges[k].smooth
            => outMesh.smooth[j] = targetMesh.edges[k].smooth

\* ------------------------------------------------- any array as pointOrder

\* Every array of n entries as pointOrder, a bijection or not; no store
\* call fails unless the store cannot build the mesh.
InitAnyOrder ==
    \E n \in 3..MaxVerts : \E po \in Mappings(n) : \E md \in BOOLEAN :
        InitWith(Polygon(n), po, md, DistinctPoints(n), Alternate(n),
                 [k \in 1..n |-> k % 2 = 0], {}, {}, <<"map1", "uvSet1">>,
                 {"create", "createInPlace"})

SpecAnyOrder == InitAnyOrder /\ [][Next]_vars

\* C4 as stated: with a pointOrder that is not a bijection over
\* [0, numVertices) reorderMesh returns an error, and writes no point slot,
\* no connectivity entry and nothing on the output mesh.
C4_InvalidMappingRejected ==
    ~IsBijection(pointOrder, NumVertices) =>
        /\ \A slot \in 1..Len(pointWrites) : pointWrites[slot] = 0
        /\ polyConnects = <<>>
        /\ calls = <<>>
        /\ ~RanOk("create") /\ ~RanOk("createInPlace")
        /\ status # "kSuccess"
        /\ steps # <<>> => (status = "kFailure" /\ pc = "done")

=============================================================================
